---- MODULE Spec2Model ----
(***************************************************************************)
(* Measurement session of src/lib/presage.ts (startPresageMeasurement and  *)
(* the closures it creates) and the useVitals hook that owns sessions      *)
(* (src/components/emi/VitalMonitor.tsx, lines 470-635).                   *)
(*                                                                         *)
(* Numbers that the code holds as floating point are kept exact in fixed   *)
(* point: a Math.random() draw is an integer number of thousandths         *)
(* (0..999), lighting is kept in sixths, motion and face position in       *)
(* hundredths, the weighted blend in thousandths. Math.round(x) is         *)
(* floor(x + 0.5). A nullable value is the empty set (null) or a singleton.*)
(* Wall-clock time (Date, the 1000 ms period) is not modelled: a live      *)
(* interval timer may fire whenever the event loop is idle.                *)
(***************************************************************************)
EXTENDS Integers, Sequences, FiniteSets, TLC

VARIABLES
    sess,       \* session id -> closure variables of startPresageMeasurement
    hist,       \* session id -> observation of the last operations (history)
    apiKey,     \* process.env.NEXT_PUBLIC_PRESAGE_API_KEY is set
    hook,       \* state and refs of the useVitals hook, its pending continuations
    probe       \* the last application of a pure helper: its argument and result

vars == <<sess, hist, apiKey, hook, probe>>

(***************************************************************************)
(* Bounds                                                                  *)
(***************************************************************************)
MaxSessions == 2
MaxTimers == 2
MaxFrames == 4
MaxTasks == 1
MaxHookFrames == 3

SIDs == 1..MaxSessions
TimerIds == 1..MaxTimers

(***************************************************************************)
(* Program constants                                                       *)
(***************************************************************************)
CalibrationFrames == 3

Null == {}
Some(v) == {v}

States == {"idle", "initializing", "calibrating", "measuring", "paused", "error"}

INITIAL_SIGNAL_QUALITY ==
    [overall |-> 0, faceDetected |-> FALSE, facePositionQuality |-> 0,
     lightingQuality |-> 0, motionStability |-> 0,
     recommendation |-> Some("Position your face in the camera frame")]

NoArg == [none |-> TRUE]
NoProbe == [fn |-> "none", arg |-> NoArg, out |-> NoArg]
Ev(cb, arg) == [cb |-> cb, arg |-> arg]

(***************************************************************************)
(* Frames and random draws the environment supplies to a tick.  A frame is *)
(* <<>> when the video has no width yet, else the channel averages of the  *)
(* sampled centre region.                                                  *)
(***************************************************************************)
Frames == { <<>>, <<80, 50, 30>>, <<200, 150, 120>>, <<30, 30, 30>>, <<250, 250, 250>> }
Rands == {0, 999}
VitalsDraws == { [i \in 1..12 |-> 0], [i \in 1..12 |-> 999] }

Abs(x) == IF x < 0 THEN -x ELSE x
Min(a, b) == IF a < b THEN a ELSE b
Max(a, b) == IF a > b THEN a ELSE b
Round(num, den) == (2 * num + den) \div (2 * den)

(***************************************************************************)
(* analyzeFrame: skin-tone heuristic on the channel averages.              *)
(***************************************************************************)
IsSkinTone_NoDifference(rgb) ==
    LET avgR == rgb[1]  avgG == rgb[2]  avgB == rgb[3]
    IN  /\ avgR > 60 /\ avgG > 40 /\ avgB > 20
        /\ avgR > avgG /\ avgR > avgB

IsSkinTone(rgb) ==
    LET avgR == rgb[1]  avgG == rgb[2]  avgB == rgb[3]
    IN  /\ avgR > 60 /\ avgG > 40 /\ avgB > 20
        /\ avgR > avgG /\ avgR > avgB
        /\ Abs(avgR - avgG) > 15

analyzeFrame_FaceOnNoFrame(frame) ==
    IF frame = <<>>
    THEN [faceDetected |-> TRUE, rgbValues |-> <<>>]
    ELSE [faceDetected |-> IsSkinTone(frame), rgbValues |-> frame]

analyzeFrame(frame) ==
    IF frame = <<>>
    THEN [faceDetected |-> FALSE, rgbValues |-> <<>>]
    ELSE [faceDetected |-> IsSkinTone(frame), rgbValues |-> frame]

(***************************************************************************)
(* updateSignalQuality.  With rgbValues = [] the brightness is NaN, both   *)
(* comparisons are false and the lighting is the flat 30.                  *)
(***************************************************************************)
LightingSixths_InclusiveBounds(rgbValues) ==
    IF rgbValues = <<>>
    THEN 180
    ELSE LET sum == rgbValues[1] + rgbValues[2] + rgbValues[3]
         IN  Min(600, Max(0,
                IF sum >= 150 /\ sum <= 600 THEN 600 - Abs(sum - 375) ELSE 180))

LightingSixths(rgbValues) ==
    IF rgbValues = <<>>
    THEN 180
    ELSE LET sum == rgbValues[1] + rgbValues[2] + rgbValues[3]
         IN  Min(600, Max(0,
                IF sum > 150 /\ sum < 600 THEN 600 - Abs(sum - 375) ELSE 180))

MotionHundredths_Unclamped(rnd) == 7000 + 31 * rnd

MotionHundredths(rnd) == 7000 + 3 * rnd

FacePositionHundredths_Always(faceDetected, rnd) == 8000 + 2 * rnd

FacePositionHundredths(faceDetected, rnd) ==
    IF faceDetected THEN 8000 + 2 * rnd ELSE 0

OverallThousandths(faceDetected, l6, m100, f100) ==
    IF faceDetected THEN 50 * l6 + 3 * m100 + 4 * f100 ELSE 0

Recommendation_LightingFirst(faceDetected, l6, m100) ==
    IF l6 < 300
    THEN Some("Improve lighting conditions for better accuracy")
    ELSE IF ~faceDetected
    THEN Some("Position your face in the center of the frame")
    ELSE IF m100 < 6000
    THEN Some("Please hold still for accurate measurements")
    ELSE Null

Recommendation(faceDetected, l6, m100) ==
    IF ~faceDetected
    THEN Some("Position your face in the center of the frame")
    ELSE IF l6 < 300
    THEN Some("Improve lighting conditions for better accuracy")
    ELSE IF m100 < 6000
    THEN Some("Please hold still for accurate measurements")
    ELSE Null

ComputeQuality(faceDetected, rgbValues, mRnd, fRnd) ==
    LET l6   == LightingSixths(rgbValues)
        m100 == MotionHundredths(mRnd)
        f100 == FacePositionHundredths(faceDetected, fRnd)
    IN  [overall             |-> Round(OverallThousandths(faceDetected, l6, m100, f100), 1000),
         faceDetected        |-> faceDetected,
         facePositionQuality |-> Round(f100, 100),
         lightingQuality     |-> Round(l6, 6),
         motionStability     |-> Round(m100, 100),
         recommendation      |-> Recommendation(faceDetected, l6, m100)]

\* Line 355 compares the argument with the field that line 346 has just
\* assigned from it.
FaceChanged(faceDetected, quality) == faceDetected # quality.faceDetected

updateSignalQuality_OnChangeOnly(s, faceDetected, rgbValues, mRnd, fRnd) ==
    LET q == ComputeQuality(faceDetected, rgbValues, mRnd, fRnd)
    IN  [s  |-> [s EXCEPT !.signalQuality = q],
         ev |-> IF q = s.signalQuality THEN <<>> ELSE <<Ev("onSignalQualityChange", q)>>]

updateSignalQuality(s, faceDetected, rgbValues, mRnd, fRnd) ==
    LET q == ComputeQuality(faceDetected, rgbValues, mRnd, fRnd)
    IN  [s  |-> [s EXCEPT !.signalQuality = q],
         ev |-> <<Ev("onSignalQualityChange", q)>>
                \o (IF FaceChanged(faceDetected, q)
                    THEN <<Ev("onFaceDetectionChange", [detected |-> faceDetected])>>
                    ELSE <<>>)]

(***************************************************************************)
(* generateVitals.  sin(frameCount * 0.1) in thousandths, tabulated for    *)
(* the frame counts the model reaches.  Confidences are in units of 1e-5.  *)
(***************************************************************************)
SinThousandths(n) ==
    CASE n = 0 -> 0    [] n = 1 -> 100  [] n = 2 -> 199  [] n = 3 -> 296
      [] n = 4 -> 389  [] n = 5 -> 479  [] n = 6 -> 565  [] n = 7 -> 644
      [] n = 8 -> 717  [] n = 9 -> 783  [] OTHER -> 841

generateVitals(s, d) ==
    LET fd == s.signalQuality.faceDetected
        hrVariance == 5 * SinThousandths(s.frameCount) + (d[1] - 500) * 4
    IN  [heartRate                  |-> IF fd THEN Some(Round(72000 + hrVariance, 1000)) ELSE Null,
         heartRateConfidence        |-> IF fd THEN 85000 + 10 * d[2] ELSE 0,
         oxygenSaturation           |-> IF fd THEN Some(96 + (d[3] * 3) \div 1000) ELSE Null,
         oxygenSaturationConfidence |-> IF fd THEN 80000 + 15 * d[4] ELSE 0,
         respiratoryRate            |-> IF fd THEN Some(14 + (d[5] * 4) \div 1000) ELSE Null,
         respiratoryRateConfidence  |-> IF fd THEN 75000 + 20 * d[6] ELSE 0,
         bloodPressure              |-> IF fd
                                        THEN Some([systolic  |-> 115 + (d[7] * 15) \div 1000,
                                                   diastolic |-> 75 + (d[8] * 10) \div 1000])
                                        ELSE Null,
         bloodPressureConfidence    |-> IF fd THEN 70000 + 15 * d[9] ELSE 0,
         stressLevel                |-> IF fd THEN Some((30000 + d[10] * 40) \div 1000) ELSE Null,
         hrv                        |-> IF fd THEN Some((40000 + d[11] * 30) \div 1000) ELSE Null,
         hrvConfidence              |-> IF fd THEN 65000 + 20 * d[12] ELSE 0]

(***************************************************************************)
(* The closure variables of one startPresageMeasurement call (lines        *)
(* 248-254), the state property copied into the session object (line 469), *)
(* and the interval timers of the event loop whose callback is this        *)
(* session's measurementLoop.                                              *)
(***************************************************************************)
NewSession ==
    [created             |-> FALSE,
     state               |-> "initializing",
     measurementInterval |-> Null,
     latestVitals        |-> Null,
     signalQuality       |-> INITIAL_SIGNAL_QUALITY,
     frameCount          |-> 0,
     calibrationComplete |-> FALSE,
     objState            |-> "initializing",
     timers              |-> {}]

\* setInterval returns a handle no live timer has.
FreshTimer(s) == CHOOSE id \in TimerIds \ s.timers : \A o \in TimerIds \ s.timers : id <= o

setInterval(s) ==
    LET id == FreshTimer(s)
    IN  [s EXCEPT !.measurementInterval = Some(id), !.timers = @ \cup {id}]

\* if (measurementInterval) { clearInterval(measurementInterval); measurementInterval = null; }
clearMeasurementInterval(s) ==
    IF s.measurementInterval # Null
    THEN [s EXCEPT !.timers = @ \ s.measurementInterval, !.measurementInterval = Null]
    ELSE s

(***************************************************************************)
(* measurementLoop (lines 394-416)                                         *)
(***************************************************************************)
\* line 401
InCalibration_OffByOne(s) == ~s.calibrationComplete /\ s.frameCount <= CalibrationFrames

InCalibration(s) == ~s.calibrationComplete /\ s.frameCount < CalibrationFrames

\* line 412
ShouldGenerateVitals_AnyState(s) == s.signalQuality.faceDetected

ShouldGenerateVitals(s) == s.state = "measuring" /\ s.signalQuality.faceDetected

\* order in which one tick delivers its callbacks (lines 398, 409, 414)
LoopEvents_VitalsFirst(qualityEv, readyEv, vitalsEv) == vitalsEv \o qualityEv \o readyEv

LoopEvents(qualityEv, readyEv, vitalsEv) == qualityEv \o readyEv \o vitalsEv

measurementLoop_ErrorOnNoFrame(s, frame, mRnd, fRnd, d) ==
    LET s1 == [s EXCEPT !.frameCount = @ + 1]
        a  == analyzeFrame(frame)
        u  == updateSignalQuality(s1, a.faceDetected, a.rgbValues, mRnd, fRnd)
    IN  IF a.rgbValues = <<>>
        THEN [s  |-> [u.s EXCEPT !.state = "error"],
              ev |-> u.ev \o <<Ev("onError", [code |-> "MEASUREMENT_FAILED"])>>]
        ELSE IF InCalibration(u.s)
        THEN [s |-> [u.s EXCEPT !.state = "calibrating"], ev |-> LoopEvents(u.ev, <<>>, <<>>)]
        ELSE LET s2 == IF ~u.s.calibrationComplete
                       THEN [u.s EXCEPT !.calibrationComplete = TRUE, !.state = "measuring"]
                       ELSE u.s
                 readyEv == IF ~u.s.calibrationComplete
                            THEN <<Ev("onReady", NoArg)>> ELSE <<>>
                 v  == generateVitals(s2, d)
             IN  IF ShouldGenerateVitals(s2)
                 THEN [s  |-> [s2 EXCEPT !.latestVitals = Some(v)],
                       ev |-> LoopEvents(u.ev, readyEv, <<Ev("onVitalsUpdate", v)>>)]
                 ELSE [s |-> s2, ev |-> LoopEvents(u.ev, readyEv, <<>>)]

measurementLoop(s, frame, mRnd, fRnd, d) ==
    LET s1 == [s EXCEPT !.frameCount = @ + 1]
        a  == analyzeFrame(frame)
        u  == updateSignalQuality(s1, a.faceDetected, a.rgbValues, mRnd, fRnd)
    IN  IF InCalibration(u.s)
        THEN [s |-> [u.s EXCEPT !.state = "calibrating"], ev |-> LoopEvents(u.ev, <<>>, <<>>)]
        ELSE LET s2 == IF ~u.s.calibrationComplete
                       THEN [u.s EXCEPT !.calibrationComplete = TRUE, !.state = "measuring"]
                       ELSE u.s
                 readyEv == IF ~u.s.calibrationComplete
                            THEN <<Ev("onReady", NoArg)>> ELSE <<>>
                 v  == generateVitals(s2, d)
             IN  IF ShouldGenerateVitals(s2)
                 THEN [s  |-> [s2 EXCEPT !.latestVitals = Some(v)],
                       ev |-> LoopEvents(u.ev, readyEv, <<Ev("onVitalsUpdate", v)>>)]
                 ELSE [s |-> s2, ev |-> LoopEvents(u.ev, readyEv, <<>>)]

(***************************************************************************)
(* The control surface (lines 421-464)                                     *)
(***************************************************************************)
\* line 422
StartReturnsEarly_WhenActive(s) == s.state = "measuring" \/ s.state = "calibrating"

StartReturnsEarly(s) == s.state = "measuring"

start_ClearsReadings(s) ==
    IF StartReturnsEarly(s)
    THEN [s |-> s, ev |-> <<>>]
    ELSE [s  |-> setInterval([s EXCEPT !.state = "calibrating",
                                       !.frameCount = 0,
                                       !.calibrationComplete = FALSE,
                                       !.latestVitals = Null,
                                       !.signalQuality = INITIAL_SIGNAL_QUALITY]),
          ev |-> <<Ev("onMeasurementStart", NoArg)>>]

start(s) ==
    IF StartReturnsEarly(s)
    THEN [s |-> s, ev |-> <<>>]
    ELSE [s  |-> setInterval([s EXCEPT !.state = "calibrating",
                                       !.frameCount = 0,
                                       !.calibrationComplete = FALSE]),
          ev |-> <<Ev("onMeasurementStart", NoArg)>>]

pause(s) ==
    [s |-> [clearMeasurementInterval(s) EXCEPT !.state = "paused"], ev |-> <<>>]

resume(s) ==
    IF s.state # "paused"
    THEN [s |-> s, ev |-> <<>>]
    ELSE [s |-> setInterval([s EXCEPT !.state = "measuring"]), ev |-> <<>>]

stop_Discard(s) ==
    [s  |-> [clearMeasurementInterval(s) EXCEPT !.state = "idle", !.latestVitals = Null,
                                                !.signalQuality = INITIAL_SIGNAL_QUALITY],
     ev |-> <<Ev("onMeasurementStop", NoArg)>>]

stop(s) ==
    [s  |-> [clearMeasurementInterval(s) EXCEPT !.state = "idle"],
     ev |-> <<Ev("onMeasurementStop", NoArg)>>]

\* isActive (line 476)
isActive(s) == s.state = "measuring" \/ s.state = "calibrating"

(***************************************************************************)
(* startPresageMeasurement (lines 233-483): without an API key it reports  *)
(* INVALID_API_KEY and throws; otherwise it builds the closure, copies the *)
(* state into the session object and auto-starts.                          *)
(***************************************************************************)
startPresageMeasurement_NoThrow(s, key) ==
    LET r == start([NewSession EXCEPT !.created = TRUE])
    IN  [s     |-> r.s,
         ev    |-> (IF ~key THEN <<Ev("onError", [code |-> "INVALID_API_KEY"])>> ELSE <<>>) \o r.ev,
         threw |-> FALSE]

startPresageMeasurement(s, key) ==
    IF ~key
    THEN [s |-> s, ev |-> <<Ev("onError", [code |-> "INVALID_API_KEY"])>>, threw |-> TRUE]
    ELSE LET r == start([NewSession EXCEPT !.created = TRUE])
         IN  [s |-> r.s, ev |-> r.ev, threw |-> FALSE]

(***************************************************************************)
(* History of a session: what the last operations were and delivered.      *)
(***************************************************************************)
Count(ev, cb) == Cardinality({i \in 1..Len(ev) : ev[i].cb = cb})
Has(ev, cb) == \E i \in 1..Len(ev) : ev[i].cb = cb

\* the payload of the last delivery of cb in ev, or prev when ev has none
LastArg(ev, cb, prev) ==
    LET at == {i \in 1..Len(ev) : ev[i].cb = cb}
    IN  IF at = {} THEN prev
        ELSE Some(ev[CHOOSE i \in at : \A j \in at : j <= i].arg)

NoHist ==
    [op |-> "none", prevOp |-> "none", ev |-> <<>>, halted |-> FALSE, clean |-> FALSE,
     resumed |-> FALSE, ticks |-> 0, ready |-> 0, faceBefore |-> FALSE,
     stateBefore |-> "initializing", frame |-> Null, threw |-> FALSE,
     sameQuality |-> TRUE, lastQuality |-> Null, lastVitals |-> Null]

HistAfter(h, op, before, r) ==
    LET started == Has(r.ev, "onMeasurementStart")
        resumed == op = "resume" /\ before.state = "paused"
    IN  [op          |-> op,
         prevOp      |-> h.op,
         ev          |-> r.ev,
         halted      |-> IF op \in {"pause", "stop"} THEN TRUE
                         ELSE IF started \/ resumed THEN FALSE
                         ELSE h.halted,
         clean       |-> IF started THEN TRUE
                         ELSE IF op \in {"pause", "resume", "stop"} THEN FALSE
                         ELSE h.clean,
         resumed     |-> IF resumed THEN TRUE
                         ELSE IF started \/ op \in {"pause", "stop"} THEN FALSE
                         ELSE h.resumed,
         ticks       |-> IF started THEN 0
                         ELSE IF op = "tick" THEN h.ticks + 1
                         ELSE h.ticks,
         ready       |-> IF started THEN 0 ELSE h.ready + Count(r.ev, "onReady"),
         faceBefore  |-> before.signalQuality.faceDetected,
         stateBefore |-> before.state,
         frame       |-> h.frame,
         threw       |-> FALSE,
         sameQuality |-> r.s.signalQuality = before.signalQuality,
         lastQuality |-> LastArg(r.ev, "onSignalQualityChange", h.lastQuality),
         lastVitals  |-> LastArg(r.ev, "onVitalsUpdate", h.lastVitals)]

(***************************************************************************)
(* The useVitals hook (VitalMonitor.tsx lines 470-635): React state, the   *)
(* three refs, and the continuations of connect() that are still pending.  *)
(* A task slot holds one connect() call from its getUserMedia request to   *)
(* the end of initializePresage:                                           *)
(*   "gum"     awaiting navigator.mediaDevices.getUserMedia (line 551)     *)
(*   "timeout" the 100 ms setTimeout is armed (line 564)                   *)
(*   "play"    awaiting videoElement.play() (line 488)                     *)
(* disconnected and initialized are history: the last call of the host was *)
(* disconnect(); the last connect() got through initializePresage past     *)
(* play() and no disconnect() came since.                                  *)
(* startPresageMeasurement suspends only on its own already-settled        *)
(* start() promise, so from the resolution of play() to the assignment of  *)
(* sessionRef (line 528) only microtasks run: that stretch is one step.    *)
(* The video element is rendered for as long as the component is mounted,  *)
(* so videoRef.current is non-null exactly while mounted.                  *)
(***************************************************************************)
Tasks == 1..MaxTasks

INITIAL_VITALS ==
    [heartRate |-> Null, spO2 |-> Null, respiratoryRate |-> Null,
     bloodPressure |-> Null, stressLevel |-> Null, hrv |-> Null]

HOOK_INITIAL_SIGNAL_QUALITY ==
    [overall |-> 0, faceDetected |-> FALSE, facePositionQuality |-> 0,
     lightingQuality |-> 0, motionStability |-> 0, recommendation |-> Null]

InitHook ==
    [mounted       |-> TRUE,
     vitals        |-> INITIAL_VITALS,
     isConnected   |-> FALSE,
     isMeasuring   |-> FALSE,
     isCalibrating |-> FALSE,
     signalQuality |-> HOOK_INITIAL_SIGNAL_QUALITY,
     error         |-> Null,
     streamRef     |-> Null,
     sessionRef    |-> Null,
     task          |-> [k \in Tasks |-> "free"],
     disconnected  |-> FALSE,
     initialized   |-> FALSE]

\* A state setter: React drops updates of an unmounted component.
SetState(h, field, value) == IF h.mounted THEN [h EXCEPT ![field] = value] ELSE h

\* The callbacks initializePresage passes to startPresageMeasurement (lines 492-525).
HookCallback(h, e) ==
    CASE e.cb = "onVitalsUpdate" ->
            SetState(h, "vitals",
                [heartRate       |-> e.arg.heartRate,
                 spO2            |-> e.arg.oxygenSaturation,
                 respiratoryRate |-> e.arg.respiratoryRate,
                 bloodPressure   |-> e.arg.bloodPressure,
                 stressLevel     |-> e.arg.stressLevel,
                 hrv             |-> e.arg.hrv])
      [] e.cb = "onSignalQualityChange" -> SetState(h, "signalQuality", e.arg)
      [] e.cb = "onReady" ->
            SetState(SetState(h, "isCalibrating", FALSE), "isMeasuring", TRUE)
      [] e.cb = "onMeasurementStart" -> SetState(h, "isCalibrating", TRUE)
      [] e.cb = "onMeasurementStop" ->
            SetState(SetState(h, "isMeasuring", FALSE), "isCalibrating", FALSE)
      [] e.cb = "onError" -> SetState(h, "error", Some(e.arg.code))
      [] OTHER -> h

RECURSIVE Deliver(_, _)
Deliver(h, ev) == IF ev = <<>> THEN h ELSE Deliver(HookCallback(h, Head(ev)), Tail(ev))

\* the catch block of initializePresage (lines 529-534)
InitializeCatch_KeepsCalibrating(h, message) == SetState(h, "error", Some(message))

InitializeCatch(h, message) ==
    SetState(SetState(h, "error", Some(message)), "isCalibrating", FALSE)

\* the catch block of connect (lines 570-575)
ConnectCatch(h, message) ==
    SetState(SetState(h, "error", Some(message)), "isCalibrating", FALSE)

\* disconnect, lines 599-602
DisconnectSetters(h) ==
    SetState(SetState(SetState(SetState(h,
        "isConnected", FALSE), "isMeasuring", FALSE), "isCalibrating", FALSE),
        "signalQuality", HOOK_INITIAL_SIGNAL_QUALITY)

\* disconnect stops the session only when sessionRef holds one (line 583)
HoldsSession(h) == h.sessionRef # Null

\* A session slot is free when its closure is unreachable: no live timer and
\* not held in sessionRef.
FreeSlot(i) == sess[i].timers = {} /\ hook.sessionRef # Some(i)
HasLiveTicker(i) == sess[i].timers # {}

(***************************************************************************)
(* Specification of one session driven through its control surface.       *)
(***************************************************************************)
TheSession == CHOOSE i \in SIDs : \A j \in SIDs : i <= j

Init ==
    /\ sess = [i \in SIDs |-> NewSession]
    /\ hist = [i \in SIDs |-> NoHist]
    /\ apiKey \in BOOLEAN
    /\ hook = InitHook
    /\ probe = NoProbe

Apply(i, op, r) ==
    /\ sess' = [sess EXCEPT ![i] = r.s]
    /\ hist' = [hist EXCEPT ![i] = HistAfter(hist[i], op, sess[i], r)]
    /\ UNCHANGED <<apiKey, hook, probe>>

CanSetInterval(s) == TimerIds \ s.timers # {}

Create ==
    /\ ~sess[TheSession].created
    /\ LET r == startPresageMeasurement(sess[TheSession], apiKey)
       IN  /\ sess' = [sess EXCEPT ![TheSession] = r.s]
           /\ hist' = [hist EXCEPT ![TheSession] =
                          [HistAfter(hist[TheSession], "create", sess[TheSession], r)
                              EXCEPT !.threw = r.threw]]
           /\ UNCHANGED <<apiKey, hook, probe>>

Start ==
    /\ sess[TheSession].created
    /\ StartReturnsEarly(sess[TheSession]) \/ CanSetInterval(sess[TheSession])
    /\ Apply(TheSession, "start", start(sess[TheSession]))

Pause ==
    /\ sess[TheSession].created
    /\ Apply(TheSession, "pause", pause(sess[TheSession]))

Resume ==
    /\ sess[TheSession].created
    /\ sess[TheSession].state # "paused" \/ CanSetInterval(sess[TheSession])
    /\ Apply(TheSession, "resume", resume(sess[TheSession]))

Stop ==
    /\ sess[TheSession].created
    /\ Apply(TheSession, "stop", stop(sess[TheSession]))

\* A live interval timer of the session fires.
Tick ==
    /\ sess[TheSession].timers # {}
    /\ sess[TheSession].frameCount < MaxFrames
    /\ \E frame \in Frames, mRnd \in Rands, fRnd \in Rands, d \in VitalsDraws :
           LET r == measurementLoop(sess[TheSession], frame, mRnd, fRnd, d)
           IN  /\ sess' = [sess EXCEPT ![TheSession] = r.s]
               /\ hist' = [hist EXCEPT ![TheSession] =
                              [HistAfter(hist[TheSession], "tick", sess[TheSession], r)
                                  EXCEPT !.frame = Some(frame)]]
               /\ UNCHANGED <<apiKey, hook, probe>>

Next == Create \/ Start \/ Pause \/ Resume \/ Stop \/ Tick

Spec == Init /\ [][Next]_vars

(***************************************************************************)
(* Specification of the hook: connect(), disconnect(), reset() and unmount *)
(* called by the host at any time, the pending continuations of connect()  *)
(* and the ticks of every session that still has a live timer.             *)
(***************************************************************************)
\* The hook reacts to a tick only through the callbacks; what a frame holds is
\* explored in Spec, and here every tick sees a frame with a face.
HookFrames == { <<80, 50, 30>> }
HookRands == {500}
HookDraw == [i \in 1..12 |-> 500]

HookInit ==
    /\ sess = [i \in SIDs |-> NewSession]
    /\ hist = [i \in SIDs |-> NoHist]
    /\ apiKey \in BOOLEAN
    /\ hook = InitHook
    /\ probe = NoProbe

\* Every pending connect() may create one session, and a session that was
\* never stopped keeps its slot: connect() is taken only while a slot is
\* left for it.
SlotLeft ==
    Cardinality({i \in SIDs : FreeSlot(i)}) > Cardinality({k \in Tasks : hook.task[k] # "free"})

\* connect(), lines 540-551, up to the await of getUserMedia
Connect ==
    /\ hook.mounted
    /\ SlotLeft
    /\ \E k \in Tasks :
          /\ hook.task[k] = "free"
          /\ \A j \in Tasks : j < k => hook.task[j] # "free"
          /\ hook' = [SetState(SetState(hook, "error", Null), "isCalibrating", TRUE)
                        EXCEPT !.task[k] = "gum", !.disconnected = FALSE,
                               !.initialized = FALSE]
    /\ UNCHANGED <<sess, hist, apiKey, probe>>

\* getUserMedia resolves: lines 560-568
GumResolve ==
    \E k \in Tasks :
       /\ hook.task[k] = "gum"
       /\ hook' = [SetState(hook, "isConnected", TRUE)
                     EXCEPT !.streamRef = Some(k), !.task[k] = "timeout"]
       /\ UNCHANGED <<sess, hist, apiKey, probe>>

\* getUserMedia rejects (permission denied, no camera): lines 570-575
GumReject ==
    \E k \in Tasks :
       /\ hook.task[k] = "gum"
       /\ hook' = [ConnectCatch(hook, "camera") EXCEPT !.task[k] = "free"]
       /\ UNCHANGED <<sess, hist, apiKey, probe>>

\* the setTimeout callback, lines 564-568, and initializePresage up to play()
TimeoutFire ==
    \E k \in Tasks :
       /\ hook.task[k] = "timeout"
       /\ hook' = [hook EXCEPT !.task[k] =
                      IF hook.mounted /\ hook.streamRef # Null THEN "play" ELSE "free"]
       /\ UNCHANGED <<sess, hist, apiKey, probe>>

\* play() resolves: lines 491-528, or the catch block when
\* startPresageMeasurement throws
PlayResolve ==
    \E k \in Tasks :
       /\ hook.task[k] = "play"
       /\ \E i \in SIDs :
             /\ FreeSlot(i)
             /\ \A j \in SIDs : j < i => ~FreeSlot(j)
             /\ LET r == startPresageMeasurement(NewSession, apiKey)
                    h == Deliver(hook, r.ev)
                IN  IF r.threw
                    THEN /\ hook' = [InitializeCatch(h, "INVALID_API_KEY")
                                        EXCEPT !.task[k] = "free", !.initialized = TRUE]
                         /\ sess' = sess
                    ELSE /\ hook' = [h EXCEPT !.sessionRef = Some(i), !.task[k] = "free",
                                               !.initialized = TRUE]
                         /\ sess' = [sess EXCEPT ![i] = r.s]
       /\ UNCHANGED <<hist, apiKey, probe>>

\* play() rejects: lines 529-534
PlayReject ==
    \E k \in Tasks :
       /\ hook.task[k] = "play"
       /\ hook' = [InitializeCatch(hook, "play") EXCEPT !.task[k] = "free"]
       /\ UNCHANGED <<sess, hist, apiKey, probe>>

\* A stopped session that sessionRef has dropped is unreachable once no timer
\* holds its closure: its slot goes back to the initial record.
Collect(s) == IF s.timers = {} THEN NewSession ELSE s

\* disconnect(), lines 581-603
DisconnectBody(thenMounted) ==
    LET i  == CHOOSE j \in SIDs : hook.sessionRef = Some(j)
        r  == stop(sess[i])
        h1 == IF HoldsSession(hook)
              THEN [Deliver(hook, r.ev) EXCEPT !.sessionRef = Null]
              ELSE hook
        h2 == DisconnectSetters([h1 EXCEPT !.streamRef = Null])
    IN  /\ hook' = [h2 EXCEPT !.disconnected = TRUE, !.mounted = thenMounted,
                               !.initialized = FALSE]
        /\ sess' = IF HoldsSession(hook) THEN [sess EXCEPT ![i] = Collect(r.s)] ELSE sess
        /\ UNCHANGED <<hist, apiKey, probe>>

Disconnect ==
    /\ hook.mounted
    /\ DisconnectBody(TRUE)

\* the effect cleanup on unmount, lines 617-621
Unmount ==
    /\ hook.mounted
    /\ DisconnectBody(FALSE)

\* reset(), lines 608-612
Reset ==
    /\ hook.mounted
    /\ hook' = SetState(SetState(SetState(hook, "vitals", INITIAL_VITALS),
                    "signalQuality", HOOK_INITIAL_SIGNAL_QUALITY), "error", Null)
    /\ UNCHANGED <<sess, hist, apiKey, probe>>

\* a live interval timer of some session fires
HookTick ==
    \E i \in SIDs :
       /\ HasLiveTicker(i)
       /\ sess[i].frameCount < MaxHookFrames
       /\ \E frame \in HookFrames, rnd \in HookRands :
             LET r == measurementLoop(sess[i], frame, rnd, rnd, HookDraw)
             IN  /\ sess' = [sess EXCEPT ![i] = r.s]
                 /\ hook' = Deliver(hook, r.ev)
       /\ UNCHANGED <<hist, apiKey, probe>>

HookNext ==
    \/ Connect \/ GumResolve \/ GumReject \/ TimeoutFire \/ PlayResolve \/ PlayReject
    \/ Disconnect \/ Unmount \/ Reset \/ HookTick

HookSpec == HookInit /\ [][HookNext]_vars

\* Timers and pending promises eventually run: a requested camera stream
\* settles, an armed timeout fires, play() settles, and every session with a
\* live interval timer ticks.  The host's calls are under no obligation.
\* The tick of session i is the one step that advances its frameCount, and
\* it is enabled exactly when TickEnabled(i) holds, so the last conjunct is
\* weak fairness of the ticks of each session, written out.
TickEnabled(i) == HasLiveTicker(i) /\ sess[i].frameCount < MaxHookFrames
TickTaken(i) == sess'[i].frameCount = sess[i].frameCount + 1

HookFairness ==
    /\ WF_vars(GumResolve \/ GumReject)
    /\ WF_vars(TimeoutFire)
    /\ WF_vars(PlayResolve \/ PlayReject)
    /\ \A i \in SIDs : ([]<>~TickEnabled(i)) \/ ([]<><<TickTaken(i)>>_vars)

HookLiveSpec == HookInit /\ [][HookNext]_vars /\ HookFairness

(***************************************************************************)
(* Status helpers of the display (VitalMonitor.tsx lines 310-350).         *)
(***************************************************************************)
getHeartRateStatus_InclusiveLow(hr) ==
    IF hr = Null THEN "unknown"
    ELSE LET v == CHOOSE x \in hr : TRUE
         IN  IF v <= 50 \/ v > 120 THEN "critical"
             ELSE IF v < 60 \/ v > 100 THEN "warning"
             ELSE "normal"

getHeartRateStatus(hr) ==
    IF hr = Null THEN "unknown"
    ELSE LET v == CHOOSE x \in hr : TRUE
         IN  IF v < 50 \/ v > 120 THEN "critical"
             ELSE IF v < 60 \/ v > 100 THEN "warning"
             ELSE "normal"

getSpO2Status(spo2) ==
    IF spo2 = Null THEN "unknown"
    ELSE LET v == CHOOSE x \in spo2 : TRUE
         IN  IF v < 90 THEN "critical"
             ELSE IF v < 95 THEN "warning"
             ELSE "normal"

getRespiratoryStatus(rr) ==
    IF rr = Null THEN "unknown"
    ELSE LET v == CHOOSE x \in rr : TRUE
         IN  IF v < 8 \/ v > 25 THEN "critical"
             ELSE IF v < 12 \/ v > 20 THEN "warning"
             ELSE "normal"

getBPStatus_WarningFirst(bp) ==
    IF bp = Null THEN "unknown"
    ELSE LET v == CHOOSE x \in bp : TRUE
         IN  IF v.systolic > 140 \/ v.diastolic > 90 THEN "warning"
             ELSE IF v.systolic > 180 \/ v.diastolic > 120 THEN "critical"
             ELSE "normal"

getBPStatus(bp) ==
    IF bp = Null THEN "unknown"
    ELSE LET v == CHOOSE x \in bp : TRUE
         IN  IF v.systolic > 180 \/ v.diastolic > 120 THEN "critical"
             ELSE IF v.systolic > 140 \/ v.diastolic > 90 THEN "warning"
             ELSE "normal"

getHRVStatus(hrv) ==
    IF hrv = Null THEN "unknown"
    ELSE LET v == CHOOSE x \in hrv : TRUE
         IN  IF v < 20 THEN "critical"
             ELSE IF v < 30 THEN "warning"
             ELSE "normal"

getStressStatus(stress) ==
    IF stress = Null THEN "unknown"
    ELSE LET v == CHOOSE x \in stress : TRUE
         IN  IF v > 80 THEN "critical"
             ELSE IF v > 60 THEN "warning"
             ELSE "normal"

\* checkVitalsAbnormalities (VitalMonitor.tsx lines 642-649)
checkVitalsAbnormalities_Inclusive(vitals) ==
    [heartRateAbnormal       |-> \E x \in vitals.heartRate : x <= 60 \/ x >= 100,
     spO2Abnormal            |-> \E x \in vitals.spO2 : x <= 95,
     respiratoryRateAbnormal |-> \E x \in vitals.respiratoryRate : x <= 12 \/ x >= 20,
     bloodPressureAbnormal   |-> \E x \in vitals.bloodPressure :
                                    x.systolic >= 140 \/ x.diastolic >= 90]

checkVitalsAbnormalities(vitals) ==
    [heartRateAbnormal       |-> vitals.heartRate # Null
                                 /\ \E x \in vitals.heartRate : x < 60 \/ x > 100,
     spO2Abnormal            |-> vitals.spO2 # Null
                                 /\ \E x \in vitals.spO2 : x < 95,
     respiratoryRateAbnormal |-> vitals.respiratoryRate # Null
                                 /\ \E x \in vitals.respiratoryRate : x < 12 \/ x > 20,
     bloodPressureAbnormal   |-> vitals.bloodPressure # Null
                                 /\ \E x \in vitals.bloodPressure :
                                        x.systolic > 140 \/ x.diastolic > 90]

(***************************************************************************)
(* Specification of the pure helpers: each step applies one helper to an   *)
(* argument drawn from a bounded set and records argument and result.      *)
(***************************************************************************)
MaxVital == 130
MaxPressure == 190
MaxChannel == 255

Nullable(set) == {Null} \cup {Some(v) : v \in set}
VitalValues == Nullable(0..MaxVital)
Pressures ==
    Nullable({[systolic |-> sy, diastolic |-> di] :
                 sy \in {110, 140, 141, 180, 181, MaxPressure},
                 di \in {70, 90, 91, 120, 121, MaxPressure - 60}})

\* channel averages: greys across the brightness range, and tinted frames on
\* both sides of each skin-tone threshold
ProbeFrames ==
    { <<>> }
    \cup { <<v, v, v>> : v \in {0, 49, 50, 51, 100, 124, 125, 126, 150, 199, 200, 201, MaxChannel} }
    \cup { <<80, 50, 30>>, <<70, 45, 25>>, <<61, 41, 21>>, <<60, 41, 21>>, <<200, 150, 120>>,
           <<MaxChannel, 200, 180>>, <<90, 75, 30>>, <<90, 74, 30>>,
           <<80, 40, 30>>, <<80, 41, 20>>, <<100, 120, 30>>, <<100, 60, 110>>, <<100, 60, 100>> }
ProbeRands == {0, 500, 999}

Applied(fn, arg, out) == [fn |-> fn, arg |-> arg, out |-> out]

ProbeHeartRate ==
    \E v \in VitalValues :
        /\ probe' = Applied("getHeartRateStatus", [v |-> v], [status |-> getHeartRateStatus(v)])
        /\ UNCHANGED <<sess, hist, apiKey, hook>>

ProbeSpO2 ==
    \E v \in VitalValues :
        /\ probe' = Applied("getSpO2Status", [v |-> v], [status |-> getSpO2Status(v)])
        /\ UNCHANGED <<sess, hist, apiKey, hook>>

ProbeRespiratory ==
    \E v \in VitalValues :
        /\ probe' = Applied("getRespiratoryStatus", [v |-> v], [status |-> getRespiratoryStatus(v)])
        /\ UNCHANGED <<sess, hist, apiKey, hook>>

ProbeBP ==
    \E v \in Pressures :
        /\ probe' = Applied("getBPStatus", [v |-> v], [status |-> getBPStatus(v)])
        /\ UNCHANGED <<sess, hist, apiKey, hook>>

ProbeHRV ==
    \E v \in VitalValues :
        /\ probe' = Applied("getHRVStatus", [v |-> v], [status |-> getHRVStatus(v)])
        /\ UNCHANGED <<sess, hist, apiKey, hook>>

ProbeStress ==
    \E v \in VitalValues :
        /\ probe' = Applied("getStressStatus", [v |-> v], [status |-> getStressStatus(v)])
        /\ UNCHANGED <<sess, hist, apiKey, hook>>

\* the local lightingQuality of updateSignalQuality, in sixths
ProbeLighting ==
    \E frame \in ProbeFrames :
        /\ probe' = Applied("lightingQuality", [rgbValues |-> analyzeFrame(frame).rgbValues],
                             [sixths |-> LightingSixths(analyzeFrame(frame).rgbValues)])
        /\ UNCHANGED <<sess, hist, apiKey, hook>>

\* analyzeFrame followed by the quality computation of updateSignalQuality
ProbeQuality ==
    \E frame \in ProbeFrames, mRnd \in ProbeRands, fRnd \in ProbeRands :
        LET a == analyzeFrame(frame)
        IN  /\ probe' = Applied("updateSignalQuality",
                                 [frame |-> frame, mRnd |-> mRnd, fRnd |-> fRnd],
                                 [quality |-> ComputeQuality(a.faceDetected, a.rgbValues, mRnd, fRnd)])
            /\ UNCHANGED <<sess, hist, apiKey, hook>>

\* checkVitalsAbnormalities on the hook's vitals: one reading v in the three
\* numeric fields and a pressure; every reading with a few pressures, and
\* every pressure with a few readings.
FewPressures ==
    {Null, Some([systolic |-> 110, diastolic |-> 70]), Some([systolic |-> 141, diastolic |-> 70]),
     Some([systolic |-> 110, diastolic |-> 121])}
FewVitals == {Null, Some(16), Some(98)}

ProbeAbnormalities ==
    \E v \in VitalValues, bp \in Pressures :
        /\ v \in FewVitals \/ bp \in FewPressures
        /\ LET vitals == [INITIAL_VITALS EXCEPT !.heartRate = v, !.spO2 = v,
                                                !.respiratoryRate = v, !.bloodPressure = bp]
           IN  probe' = Applied("checkVitalsAbnormalities", vitals, checkVitalsAbnormalities(vitals))
        /\ UNCHANGED <<sess, hist, apiKey, hook>>

PureInit ==
    /\ sess = [i \in SIDs |-> NewSession]
    /\ hist = [i \in SIDs |-> NoHist]
    /\ apiKey = TRUE
    /\ hook = InitHook
    /\ probe = NoProbe

PureNext ==
    \/ ProbeHeartRate \/ ProbeSpO2 \/ ProbeRespiratory \/ ProbeBP \/ ProbeHRV \/ ProbeStress
    \/ ProbeLighting \/ ProbeQuality \/ ProbeAbnormalities

PureSpec == PureInit /\ [][PureNext]_vars

(***************************************************************************)
(* Properties                                                              *)
(***************************************************************************)
S == sess[TheSession]
H == hist[TheSession]

\* C1: at most one interval timer driving measurementLoop is live at any
\* time, whatever start(), pause(), resume(), stop() calls and ticks came
\* before; a second start() creates no second ticker.
C1_AtMostOneTicker == Cardinality(S.timers) <= 1

\* C2: once stop() or pause() has returned, no measurementLoop tick runs
\* (and so no quality, vitals or ready callback is delivered) until the
\* next start() or resume() takes effect.
C2_NoTickWhileHalted == H.halted => H.op # "tick"

\* C3: a stop() that directly follows a stop() delivers no second
\* measurement-stopped notification and leaves the state idle.
C3_SecondStopSilent ==
    (H.op = "stop" /\ H.prevOp = "stop") =>
        (~Has(H.ev, "onMeasurementStop") /\ S.state = "idle")

\* C4: after disconnect() (or unmount), and until the next connect(), no
\* session has a live ticker, however disconnect interleaves with the
\* pending continuations of connect().
C4_NoTickerAfterDisconnect ==
    hook.disconnected => \A i \in SIDs : ~HasLiveTicker(i)

\* C5: every session with a live ticker is the one held in sessionRef, so
\* at most one session can tick and none is orphaned.
C5_OnlyHeldSessionTicks ==
    \A i \in SIDs : HasLiveTicker(i) => hook.sessionRef = Some(i)

\* C6: a step assigns latestVitals or delivers onVitalsUpdate only if it is
\* a tick that ends in state measuring; never in idle, initializing,
\* calibrating or paused.
C6_VitalsOnlyWhenMeasuring ==
    [][ (S'.latestVitals # S.latestVitals \/ Has(H'.ev, "onVitalsUpdate"))
            => (H'.op = "tick" /\ S'.state = "measuring") ]_vars

C6_Witness ==
    /\ H.op = "tick" /\ Has(H.ev, "onVitalsUpdate")
    /\ S.state = "measuring" /\ S.latestVitals # Null

\* C7: after a start() that took effect, with no pause/resume/stop since,
\* the state is calibrating after each of the first N-1 ticks and measuring
\* from the N-th tick on (N = CalibrationFrames); onReady is delivered on
\* exactly the N-th tick, and at most once per start().
C7_CalibrationTakesNTicks ==
    /\ H.clean =>
          /\ H.ticks < CalibrationFrames => (S.state = "calibrating" /\ H.ready = 0)
          /\ H.ticks >= CalibrationFrames => (S.state = "measuring" /\ H.ready = 1)
          /\ H.op = "tick" => (Has(H.ev, "onReady") <=> H.ticks = CalibrationFrames)
    /\ H.ready <= 1
    /\ Count(H.ev, "onReady") <= 1

C7_Witness ==
    /\ H.clean /\ H.op = "tick" /\ H.ticks = CalibrationFrames
    /\ S.state = "measuring" /\ Has(H.ev, "onReady") /\ H.stateBefore = "calibrating"

\* C8: after a pause() followed by resume(), the state is measuring right
\* after resume() and no later tick takes it back to calibrating.
C8_NoRecalibrationAfterResume ==
    H.resumed => /\ S.state # "calibrating"
                 /\ H.op = "resume" => S.state = "measuring"

\* C9: a tick delivers onFaceDetectionChange exactly once if faceDetected
\* differs from its value before the tick, and not at all otherwise.
C9_FaceChangeNotified ==
    H.op = "tick" =>
        Count(H.ev, "onFaceDetectionChange") =
            (IF H.faceBefore # S.signalQuality.faceDetected THEN 1 ELSE 0)

\* C10: within one tick quality-changed comes first, onReady (on the tick
\* that completes calibration) after it, and vitals-updated last.
Rank(cb) ==
    CASE cb = "onSignalQualityChange" -> 1
      [] cb = "onFaceDetectionChange" -> 1
      [] cb = "onReady" -> 2
      [] cb = "onVitalsUpdate" -> 3
      [] OTHER -> 0

C10_CallbackOrder ==
    H.op = "tick" =>
        /\ H.ev # <<>> /\ H.ev[1].cb = "onSignalQualityChange"
        /\ \A i, j \in 1..Len(H.ev) : i < j => Rank(H.ev[i].cb) < Rank(H.ev[j].cb)

C10_Witness ==
    /\ H.op = "tick" /\ Len(H.ev) = 3
    /\ H.ev[1].cb = "onSignalQualityChange"
    /\ H.ev[2].cb = "onReady"
    /\ H.ev[3].cb = "onVitalsUpdate"

\* C11: without an API key startPresageMeasurement delivers exactly one
\* error callback, with code INVALID_API_KEY, and throws; no session is
\* created, no ticker is scheduled and measurement-started is not delivered.
C11_MissingKeyRefuses ==
    ~apiKey =>
        /\ ~S.created /\ S.timers = {} /\ S.measurementInterval = Null
        /\ H.op = "create" =>
              /\ H.threw
              /\ H.ev = <<Ev("onError", [code |-> "INVALID_API_KEY"])>>
              /\ ~Has(H.ev, "onMeasurementStart")

C11_Witness == ~apiKey /\ H.op = "create" /\ Count(H.ev, "onError") = 1

\* C12: without an API key, once connect() has run through
\* initializePresage the hook holds a running session (one with a live
\* ticker), as it does with a key.
C12_RunsWithoutKey ==
    (~apiKey /\ hook.initialized) =>
        \E i \in SIDs : hook.sessionRef = Some(i) /\ HasLiveTicker(i)

\* C13: the state property of the session object equals the state of the
\* state machine after every operation, and isActive() is true iff that
\* state is calibrating or measuring.
C13_ExposedStateIsCurrent ==
    S.created =>
        /\ S.objState = S.state
        /\ isActive(S) <=> S.state \in {"calibrating", "measuring"}

\* C14: whenever the session's quality has faceDetected = false (initially
\* and after any tick), overall and facePositionQuality are 0, and a
\* VitalsReading generated from that state, whatever the random draws, has
\* every metric absent and every confidence 0.
AllAbsent(v) ==
    /\ v.heartRate = Null /\ v.oxygenSaturation = Null /\ v.respiratoryRate = Null
    /\ v.bloodPressure = Null /\ v.stressLevel = Null /\ v.hrv = Null
    /\ v.heartRateConfidence = 0 /\ v.oxygenSaturationConfidence = 0
    /\ v.respiratoryRateConfidence = 0 /\ v.bloodPressureConfidence = 0
    /\ v.hrvConfidence = 0

C14_NoFaceNoSignal ==
    ~S.signalQuality.faceDetected =>
        /\ S.signalQuality.overall = 0
        /\ S.signalQuality.facePositionQuality = 0
        /\ \A d \in VitalsDraws : AllAbsent(generateVitals(S, d))

C14_Witness ==
    /\ H.op = "tick" /\ S.state = "measuring"
    /\ ~S.signalQuality.faceDetected /\ S.signalQuality.lightingQuality > 0

\* C15 (as claimed): heart-rate status at the boundary values is
\* 50 -> critical, 59 -> warning, 60 -> normal, 100 -> normal,
\* 101 -> warning, 120 -> warning, 121 -> critical, absent -> unknown.
HeartRateIs(v, status) ==
    (probe.fn = "getHeartRateStatus" /\ probe.arg.v = v) => probe.out.status = status

C15_HeartRateBoundariesAsClaimed ==
    /\ HeartRateIs(Some(50), "critical")
    /\ HeartRateIs(Some(59), "warning")
    /\ HeartRateIs(Some(60), "normal")
    /\ HeartRateIs(Some(100), "normal")
    /\ HeartRateIs(Some(101), "warning")
    /\ HeartRateIs(Some(120), "warning")
    /\ HeartRateIs(Some(121), "critical")
    /\ HeartRateIs(Null, "unknown")

\* C15 (amended): the same, except that 50 -> warning (critical is below 50).
C15_HeartRateBoundaries ==
    /\ HeartRateIs(Some(50), "warning")
    /\ HeartRateIs(Some(59), "warning")
    /\ HeartRateIs(Some(60), "normal")
    /\ HeartRateIs(Some(100), "normal")
    /\ HeartRateIs(Some(101), "warning")
    /\ HeartRateIs(Some(120), "warning")
    /\ HeartRateIs(Some(121), "critical")
    /\ HeartRateIs(Null, "unknown")

C15_Witness ==
    probe.fn = "getHeartRateStatus" /\ probe.arg.v = Some(50) /\ probe.out.status = "warning"

\* C16: SpO2, respiratory rate, blood pressure, HRV and stress status are
\* the categories of the table: unknown iff absent; critical iff the
\* critical condition holds; warning iff the warning condition holds and
\* the critical one does not; normal otherwise.
Category(absent, critical, warning) ==
    IF absent THEN "unknown"
    ELSE IF critical THEN "critical"
    ELSE IF warning THEN "warning"
    ELSE "normal"

TableStatus(fn, arg) ==
    LET x == CHOOSE y \in arg : TRUE
    IN  CASE fn = "getSpO2Status" ->
                Category(arg = Null, x < 90, x < 95)
          [] fn = "getRespiratoryStatus" ->
                Category(arg = Null, x < 8 \/ x > 25, x < 12 \/ x > 20)
          [] fn = "getBPStatus" ->
                Category(arg = Null, x.systolic > 180 \/ x.diastolic > 120,
                                     x.systolic > 140 \/ x.diastolic > 90)
          [] fn = "getHRVStatus" ->
                Category(arg = Null, x < 20, x < 30)
          [] fn = "getStressStatus" ->
                Category(arg = Null, x > 80, x > 60)

C16_StatusTable ==
    probe.fn \in {"getSpO2Status", "getRespiratoryStatus", "getBPStatus",
                  "getHRVStatus", "getStressStatus"}
        => probe.out.status = TableStatus(probe.fn, probe.arg.v)

C16_Witness ==
    /\ probe.fn = "getBPStatus"
    /\ probe.arg.v = Some([systolic |-> 141, diastolic |-> 121])
    /\ probe.out.status = "critical"

\* C17: with b the mean of the three channel averages, lightingQuality is
\* 100 at b = 125, 100 - |b - 125| * 0.5 for 50 < b < 200, and 30 for
\* b <= 50, for b >= 200 and when there are no RGB values.  (Times six:
\* 3b is the channel sum.)
C17_LightingQuality ==
    probe.fn = "lightingQuality" =>
        LET rgb == probe.arg.rgbValues
            b3  == rgb[1] + rgb[2] + rgb[3]
            l6  == probe.out.sixths
        IN  IF rgb = <<>> THEN l6 = 6 * 30
            ELSE /\ b3 = 3 * 125 => l6 = 6 * 100
                 /\ (3 * 50 < b3 /\ b3 < 3 * 200) => l6 = 6 * 100 - Abs(b3 - 3 * 125)
                 /\ (b3 <= 3 * 50 \/ b3 >= 3 * 200) => l6 = 6 * 30

C17_Witness ==
    /\ probe.fn = "lightingQuality"
    /\ probe.arg.rgbValues = <<50, 50, 50>>
    /\ probe.out.sixths = 180

\* C18: the recommendation of a computed quality is the position-face text
\* if no face is detected; else the improve-lighting text if
\* lightingQuality < 50; else the hold-still text if motionStability < 60;
\* else absent.
C18_RecommendationPriority ==
    probe.fn = "updateSignalQuality" =>
        LET q == probe.out.quality
        IN  q.recommendation =
                IF ~q.faceDetected
                THEN Some("Position your face in the center of the frame")
                ELSE IF q.lightingQuality < 50
                THEN Some("Improve lighting conditions for better accuracy")
                ELSE IF q.motionStability < 60
                THEN Some("Please hold still for accurate measurements")
                ELSE Null

C18_Witness ==
    /\ probe.fn = "updateSignalQuality"
    /\ ~probe.out.quality.faceDetected
    /\ probe.out.quality.lightingQuality < 50
    /\ probe.out.quality.recommendation = Some("Position your face in the center of the frame")

\* C19: whatever start(), pause(), resume(), stop() calls and ticks came
\* before (ticks with an unavailable frame included), the state is never
\* error.
C19_NeverError ==
    S.state \in {"initializing", "calibrating", "measuring", "paused", "idle"}

C19_Witness == H.op = "tick" /\ H.frame = Some(<<>>) /\ S.state = "measuring"

\* C20: pause() and stop() change neither the signal quality nor the
\* latest vitals the session holds.
C20_PauseStopKeepReadings ==
    [][ H'.op \in {"pause", "stop"} =>
            /\ S'.signalQuality = S.signalQuality
            /\ S'.latestVitals = S.latestVitals ]_vars

C20_Witness ==
    /\ H.op = "stop" /\ S.state = "idle"
    /\ S.latestVitals # Null /\ S.signalQuality.faceDetected

\* C21: every tick delivers exactly one quality-changed notification, whose
\* payload is the quality the tick has just computed and stored, whether or
\* not that quality differs from the one before the tick, in calibrating
\* and in measuring.
C21_QualityNotifiedEveryTick ==
    H.op = "tick" =>
        /\ Count(H.ev, "onSignalQualityChange") = 1
        /\ H.ev[1] = Ev("onSignalQualityChange", S.signalQuality)

C21_Witness ==
    /\ H.op = "tick" /\ H.sameQuality /\ H.stateBefore = "calibrating"
    /\ S.state = "calibrating"
    /\ H.ev = <<Ev("onSignalQualityChange", S.signalQuality)>>

\* C22: every SignalQuality the session holds or delivers, initially and
\* after any tick, has overall, facePositionQuality, lightingQuality and
\* motionStability each an integer in 0..100.
InRange(q) ==
    /\ q.overall \in 0..100
    /\ q.facePositionQuality \in 0..100
    /\ q.lightingQuality \in 0..100
    /\ q.motionStability \in 0..100

C22_QualityInRange ==
    /\ InRange(S.signalQuality)
    /\ \A i \in 1..Len(H.ev) : H.ev[i].cb = "onSignalQualityChange" => InRange(H.ev[i].arg)

C22_Witness ==
    /\ H.op = "tick" /\ Has(H.ev, "onSignalQualityChange")
    /\ S.signalQuality.faceDetected
    /\ S.signalQuality.motionStability = 100
    /\ S.signalQuality.facePositionQuality = 100
    /\ S.signalQuality.overall > 0

\* C23: a tick whose frame is unavailable yields faceDetected = false with
\* no RGB values (so the flat lighting 30), overall = 0 and the
\* position-face recommendation, delivers neither an error callback nor
\* vitals-updated, and leaves the session's ticker running.
C23_UnavailableFrameIsNoSignal ==
    (H.op = "tick" /\ H.frame = Some(<<>>)) =>
        /\ ~S.signalQuality.faceDetected
        /\ S.signalQuality.overall = 0
        /\ S.signalQuality.lightingQuality = 30
        /\ S.signalQuality.recommendation = Some("Position your face in the center of the frame")
        /\ ~Has(H.ev, "onError")
        /\ ~Has(H.ev, "onVitalsUpdate")
        /\ S.timers # {}

C23_Witness ==
    /\ H.op = "tick" /\ H.frame = Some(<<>>)
    /\ H.stateBefore = "measuring" /\ H.faceBefore
    /\ ~S.signalQuality.faceDetected /\ S.timers # {}

\* C24: start() in any state other than measuring sets the state to
\* calibrating, the tick counter to 0 and the calibration flag to false and
\* delivers measurement-started exactly once; start() in state measuring
\* changes nothing and delivers nothing.
C24_StartResetsUnlessMeasuring ==
    [][ H'.op = "start" =>
            IF S.state = "measuring"
            THEN S' = S /\ H'.ev = <<>>
            ELSE /\ S'.state = "calibrating"
                 /\ S'.frameCount = 0
                 /\ ~S'.calibrationComplete
                 /\ H'.ev = <<Ev("onMeasurementStart", NoArg)>> ]_vars

C24_Witness ==
    /\ H.op = "start" /\ H.stateBefore = "paused"
    /\ H.prevOp = "pause" /\ H.ticks = 0
    /\ S.state = "calibrating" /\ S.frameCount = 0 /\ S.latestVitals # Null

C24_WitnessNoOp ==
    H.op = "start" /\ H.stateBefore = "measuring" /\ H.ev = <<>> /\ S.state = "measuring"

\* C25: for every available frame analyzeFrame reports a face iff the
\* channel averages satisfy red > 60, green > 40, blue > 20, red > green,
\* red > blue and |red - green| > 15; the averages (80, 50, 30) are
\* face-present and give lightingQuality 64 and overall > 0.
C25_SkinToneRule ==
    (probe.fn = "updateSignalQuality" /\ probe.arg.frame # <<>>) =>
        LET red   == probe.arg.frame[1]
            green == probe.arg.frame[2]
            blue  == probe.arg.frame[3]
            q     == probe.out.quality
        IN  /\ q.faceDetected <=>
                  /\ red > 60 /\ green > 40 /\ blue > 20
                  /\ red > green /\ red > blue
                  /\ (red - green > 15 \/ green - red > 15)
            /\ probe.arg.frame = <<80, 50, 30>> =>
                  (q.faceDetected /\ q.lightingQuality = 64 /\ q.overall > 0)

C25_Witness ==
    /\ probe.fn = "updateSignalQuality" /\ probe.arg.frame = <<80, 50, 30>>
    /\ probe.out.quality.faceDetected
    /\ probe.out.quality.lightingQuality = 64
    /\ probe.out.quality.overall > 0

C25_WitnessRejected ==
    /\ probe.fn = "updateSignalQuality" /\ probe.arg.frame = <<90, 75, 30>>
    /\ ~probe.out.quality.faceDetected

\* C26: pause() and resume() called on a session that stop() has put in
\* idle leave the state idle and schedule no ticker; only start() takes the
\* session out of idle.
C26_IdleLeftOnlyByStart ==
    [][ (S.state = "idle" /\ H'.op \in {"pause", "resume"}) =>
            (S'.state = "idle" /\ S'.timers = S.timers) ]_vars

\* C27: state = measuring implies that calibration is complete:
\* calibrationComplete is true and onReady has been delivered since the
\* last start().
C27_MeasuringMeansCalibrated ==
    S.state = "measuring" => (S.calibrationComplete /\ H.ready >= 1)

\* C28: what getLatestVitals() returns is exactly the payload of the most
\* recent vitals-updated notification, and absent iff none was ever
\* delivered; what getSignalQuality() returns is exactly the payload of the
\* most recent quality-changed notification, and the initial quality iff
\* no tick has run.  A reading is therefore replaced whole and kept across
\* ticks that produce none.
C28_GettersReturnLastDelivered ==
    /\ S.latestVitals = H.lastVitals
    /\ IF H.frame = Null
       THEN H.lastQuality = Null /\ S.signalQuality = INITIAL_SIGNAL_QUALITY
       ELSE H.lastQuality = Some(S.signalQuality) /\ S.signalQuality # INITIAL_SIGNAL_QUALITY

C28_Witness ==
    /\ H.op = "tick" /\ ~Has(H.ev, "onVitalsUpdate")
    /\ H.stateBefore = "calibrating" /\ H.ticks = 1
    /\ S.latestVitals # Null /\ S.latestVitals = H.lastVitals
    /\ H.lastQuality = Some(S.signalQuality)

\* C29: whenever the hook is calibrating (as it is after every connect()),
\* isCalibrating eventually becomes false, given that timers and pending
\* promises eventually run: the hook never stays calibrating forever.
C29_CalibrationEnds == hook.isCalibrating ~> ~hook.isCalibrating

C29_Witness ==
    /\ hook.initialized /\ hook.sessionRef # Null
    /\ hook.isMeasuring /\ ~hook.isCalibrating

C29_WitnessError ==
    hook.initialized /\ hook.error = Some("INVALID_API_KEY") /\ ~hook.isCalibrating

\* C30: checkVitalsAbnormalities agrees with the status functions: for
\* heart rate, SpO2, respiratory rate and blood pressure the abnormal flag
\* is true iff the status is warning or critical, and so false iff the
\* status is normal or unknown.
OffNormal(status) == status \in {"warning", "critical"}

C30_AbnormalIffOffNormal ==
    probe.fn = "checkVitalsAbnormalities" =>
        LET vitals == probe.arg
            flags  == probe.out
        IN  /\ flags.heartRateAbnormal <=> OffNormal(getHeartRateStatus(vitals.heartRate))
            /\ flags.spO2Abnormal <=> OffNormal(getSpO2Status(vitals.spO2))
            /\ flags.respiratoryRateAbnormal <=>
                   OffNormal(getRespiratoryStatus(vitals.respiratoryRate))
            /\ flags.bloodPressureAbnormal <=> OffNormal(getBPStatus(vitals.bloodPressure))

C30_Witness ==
    /\ probe.fn = "checkVitalsAbnormalities"
    /\ probe.arg.heartRate = Some(60) /\ probe.arg.bloodPressure # Null
    /\ ~probe.out.heartRateAbnormal /\ probe.out.spO2Abnormal
    /\ ~probe.out.bloodPressureAbnormal

====
